---- MODULE Spec2Model ----
(***************************************************************************)
(* Model of the retrieval-and-fusion core of the RAG chatbot backend:      *)
(* RAGPipeline.query / RAGPipeline.query_stream with the search gate, the  *)
(* confidence scorer, the source list and the prompt construction.         *)
(*                                                                         *)
(* Numbers.  A distance is an integer count of 1/1000.  A confidence, a    *)
(* threshold and a relevance score are integer counts of 1/2000, so that   *)
(* 1.0 - distance/2.0 is exactly  Unit - distance.  Values rounded to two  *)
(* decimals are multiples of Cent.  Arithmetic is exact on that grid; the  *)
(* inputs contain no value whose second-decimal rounding is an exact tie,  *)
(* where the binary representation of the float would decide.              *)
(***************************************************************************)
EXTENDS Integers, Sequences, FiniteSets, TLC

\* ---------------------------------------------------------------- bounds
MaxKb == 2      \* passages held by the knowledge base of the requests
MaxPassages == 4  \* passages handed to a function called on its own
MaxWeb == 4     \* results the search provider returns
MaxChunks == 2  \* chunks the generation call produces
MaxLen == 6     \* characters of a text handed to chunk_text
MaxChunkSize == 5  \* the configured chunk_size
MaxEmitted == 9 \* chunks after which a chunk_text call is not followed further
MaxFileChunks == 2  \* chunks the text of one PDF file is cut into
MaxClears == 2  \* times the collection is deleted and re-created

\* ------------------------------------------------------------- constants
Unit == 2000              \* the confidence 1.0
Cent == 20                \* the confidence 0.01
TopSources == 3           \* kb_results[:3], search_sources[:3]
NoContent == 0            \* a stream chunk whose delta.content is None

Modes == {"query", "stream"}

\* distances of the requests: 0.1, 0.4, 0.605, 3.0
Distances == {100, 400, 605, 3000}
\* thresholds of the requests: 0.0, 0.7 (the default), 0.85
Thresholds == {0, 1400, 1700}
\* num_results: ChatRequest allows 1..10
NumResults == {1, 5}
\* distances and thresholds handed to a function called on its own
FnDistances == {0, 100, 400, 605, 1000, 2000, 2001, 3000}
FnThresholds == {0, 1, 1400, 1600, 1700, 1900, 2000}

Min(a, b) == IF a < b THEN a ELSE b
Max(a, b) == IF a > b THEN a ELSE b

\* ------------------------------------------------------- confidence scorer
\* 1.0 - (distance / 2.0)
RawConfidence(distance) == Unit - distance

\* Clamp without the clamp
NoClamp(x) == x

\* max(0.0, min(1.0, x))
Clamp(x) == Max(0, Min(Unit, x))

\* round(x, 2): to the nearest multiple of 0.01, an exact tie to the even one
Round2(x) ==
  LET q == x \div Cent
      r == x % Cent
  IN  IF 2 * r < Cent THEN q * Cent
      ELSE IF 2 * r > Cent THEN (q + 1) * Cent
      ELSE IF q % 2 = 0 THEN q * Cent ELSE (q + 1) * Cent

\* RAGPipeline._calculate_confidence
calculate_confidence(kb_results) ==
  IF kb_results = <<>> THEN 0
  ELSE Round2(Clamp(RawConfidence(kb_results[1].distance)))

\* ------------------------------------------------------------ search gate
\* should_use_search without the empty-results rule
should_use_search_no_empty_rule(knowledge_base_results, confidence_threshold) ==
  IF knowledge_base_results = <<>> THEN FALSE
  ELSE RawConfidence(knowledge_base_results[1].distance) < confidence_threshold

\* WebSearchService.should_use_search
should_use_search(knowledge_base_results, confidence_threshold) ==
  IF knowledge_base_results = <<>> THEN TRUE
  ELSE RawConfidence(knowledge_base_results[1].distance) < confidence_threshold

\* ------------------------------------------------------------ vector store
\* VectorStore.search: the first min(k, count) passages, ascending distance
vector_store_search(coll, k) == SubSeq(coll, 1, Min(k, Len(coll)))

\* ------------------------------------------------------------- web search
\* the provider's results: result j has url j and the provider's score
ProviderResults(n) == [j \in 1..n |-> [url |-> j, score |-> Unit - 200 * j]]

\* what the Tavily client does for the query: raises, answers without a
\* 'results' key, or answers with n results
TavilyResponses ==
  {[kind |-> "raise", results |-> <<>>], [kind |-> "nokey", results |-> <<>>]}
    \cup {[kind |-> "ok", results |-> ProviderResults(n)] : n \in 0..MaxWeb}

\* WebSearchService.search: the results, [] on any exception
web_search(response) ==
  IF response.kind = "ok" THEN response.results ELSE <<>>

\* an Optional[str]: None, or a text (a sequence of entries, "" is <<>>)
NoneStr == [none |-> TRUE, text |-> <<>>]
Str(t) == [none |-> FALSE, text |-> t]

\* WebSearchService.format_search_results_for_context
format_search_results_for_context(results) ==
  IF results = <<>> THEN Str(<<>>)
  ELSE Str([i \in 1..Len(results) |-> [n |-> i, url |-> results[i].url]])

\* Python truthiness of search_results_context: None and "" are falsy
Truthy(ctx) == ~ctx.none /\ ctx.text # <<>>

\* ------------------------------------------------------- context composer
\* one labelled entry of the knowledge-base block: "[Source i: filename,
\* Page page]" and the passage text; the chunk metadata has no page_number
KbEntry(i, doc) ==
  [n |-> i, source |-> doc.id, page |-> "N/A", content |-> doc.id]

\* create_prompt with the web block put before the knowledge-base block
create_prompt_web_first(query, knowledge_base_context, search_results_context) ==
  LET kb_context ==
        IF knowledge_base_context # <<>>
        THEN [part |-> "kb",
              body |-> [i \in 1..Len(knowledge_base_context) |->
                          KbEntry(i, knowledge_base_context[i])]]
        ELSE [part |-> "kb_none", body |-> <<>>]
      search_part ==
        IF Truthy(search_results_context)
        THEN <<[part |-> "web", body |-> search_results_context.text]>>
        ELSE <<>>
  IN  search_part \o <<kb_context>>
        \o <<[part |-> "question", body |-> <<query>>],
             [part |-> "instruction", body |-> <<>>]>>

\* LLMClient.create_prompt: the parts of the user message, in order: the
\* knowledge-base block ("kb_none" is the sentence "No relevant internal
\* documentation found."), the web block, "User Question: {query}" and the
\* closing instruction
create_prompt(query, knowledge_base_context, search_results_context) ==
  LET kb_context ==
        IF knowledge_base_context # <<>>
        THEN [part |-> "kb",
              body |-> [i \in 1..Len(knowledge_base_context) |->
                          KbEntry(i, knowledge_base_context[i])]]
        ELSE [part |-> "kb_none", body |-> <<>>]
      search_part ==
        IF Truthy(search_results_context)
        THEN <<[part |-> "web", body |-> search_results_context.text]>>
        ELSE <<>>
  IN  <<kb_context>> \o search_part
        \o <<[part |-> "question", body |-> <<query>>],
             [part |-> "instruction", body |-> <<>>]>>

\* format_sources without the [:3] on the web sources
format_sources_all_web(kb_results, search_sources) ==
  LET kb == SubSeq(kb_results, 1, Min(TopSources, Len(kb_results)))
  IN  [i \in 1..Len(kb) |->
         [type |-> "knowledge_base", ref |-> kb[i].id,
          relevance_score |-> Round2(RawConfidence(kb[i].distance))]]
      \o
      [i \in 1..Len(search_sources) |->
         [type |-> "web_search", ref |-> search_sources[i].url,
          relevance_score |-> search_sources[i].score]]

\* format_sources without the web sources
format_sources_kb_only(kb_results, search_sources) ==
  LET kb == SubSeq(kb_results, 1, Min(TopSources, Len(kb_results)))
  IN  [i \in 1..Len(kb) |->
         [type |-> "knowledge_base", ref |-> kb[i].id,
          relevance_score |-> Round2(RawConfidence(kb[i].distance))]]

\* RAGPipeline._format_sources
format_sources(kb_results, search_sources) ==
  LET kb == SubSeq(kb_results, 1, Min(TopSources, Len(kb_results)))
      web == SubSeq(search_sources, 1, Min(TopSources, Len(search_sources)))
  IN  [i \in 1..Len(kb) |->
         [type |-> "knowledge_base", ref |-> kb[i].id,
          relevance_score |-> Round2(RawConfidence(kb[i].distance))]]
      \o
      [i \in 1..Len(web) |->
         [type |-> "web_search", ref |-> web[i].url,
          relevance_score |-> web[i].score]]

\* ---------------------------------------------------------------- chunker
\* the characters of a text: a letter, the sentence terminator, a newline
Alphabet == {"a", ".", "\n"}
\* the characters str.strip() removes
Whitespace == {" ", "\n"}

Texts == UNION {[1..n -> Alphabet] : n \in 0..MaxLen}

\* settings.chunk_size, settings.chunk_overlap
DefaultChunkSize == 1000
DefaultChunkOverlap == 200
\* the text of the documented example: 2500 characters without a break
LongText == [i \in 1..2500 |-> "a"]

\* the configurations: positive integers, chunk_overlap < chunk_size
Configs ==
  {c \in (1..MaxChunkSize) \X (1..MaxChunkSize) : c[2] < c[1]}
    \cup {<<DefaultChunkSize, DefaultChunkOverlap>>}

\* a slice index as Python resolves it against a length n
PyIndex(i, n) == IF i < 0 THEN Max(i + n, 0) ELSE Min(i, n)

\* t[a:b], positions counted from 0
Slice(t, a, b) ==
  LET lo == PyIndex(a, Len(t))
      hi == PyIndex(b, Len(t))
  IN  IF lo >= hi THEN <<>> ELSE SubSeq(t, lo + 1, hi)

\* t.rfind(c): the last position of c counted from 0, -1 when absent
rfind(t, c) ==
  IF \E i \in 1..Len(t) : t[i] = c
  THEN (CHOOSE i \in 1..Len(t) :
          t[i] = c /\ \A j \in (i + 1)..Len(t) : t[j] # c) - 1
  ELSE -1

\* t.strip()
strip(t) ==
  LET keep == {i \in 1..Len(t) : t[i] \notin Whitespace}
  IN  IF keep = {} THEN <<>>
      ELSE SubSeq(t, CHOOSE i \in keep : \A j \in keep : i <= j,
                     CHOOSE i \in keep : \A j \in keep : i >= j)

\* break_point = max(last_period, last_newline)
break_point(window) == Max(rfind(window, "."), rfind(window, "\n"))

\* the test with >= in place of >
breaks_at_half(bp, size) == 2 * bp >= size

\* if break_point > self.chunk_size * 0.5
breaks(bp, size) == 2 * bp > size

\* end after the boundary trim of the window that starts at start
chunk_end(t, start, size) ==
  LET end == start + size
      window == Slice(t, start, end)
  IN  IF end < Len(t) /\ breaks(break_point(window), size)
      THEN start + break_point(window) + 1
      ELSE end

\* chunk_text[:break_point + 1] of the window, or the whole window
chunk_window(t, start, size) ==
  LET end == start + size
      window == Slice(t, start, end)
  IN  IF end < Len(t) /\ breaks(break_point(window), size)
      THEN Slice(window, 0, break_point(window) + 1)
      ELSE window

\* the next start with the overlap added in place of subtracted
next_start_plus(end, overlap) == end + overlap

\* the next start one position late
next_start_late(end, overlap) == end - overlap + 1

\* start = end - self.chunk_overlap
next_start(end, overlap) == end - overlap

\* f"{metadata.get('filename', 'unknown')}_{chunk_num}"
chunk_id(filename, num) == <<filename, num>>

\* the DocumentChunk of one loop iteration
DocumentChunk(t, filename, num, start, size) ==
  [content |-> strip(chunk_window(t, start, size)),
   chunk_number |-> num,
   start_char |-> start,
   end_char |-> chunk_end(t, start, size),
   chunk_id |-> chunk_id(filename, num)]

\* ------------------------------------------------------------------ state
\* the knowledge bases over the distances D with at most n passages, the
\* passages in ascending distance to the query
Ascending(D, n) ==
  {s \in [1..n -> D] : \A i \in 1..(n - 1) : s[i] <= s[i + 1]}
Passages(D, max) ==
  UNION {{[i \in 1..n |-> [id |-> i, distance |-> s[i]]] : s \in Ascending(D, n)}
           : n \in 0..max}

VARIABLES
  collection,       \* the knowledge base, as ranked for the query
  use_search,       \* ChatRequest.use_search
  num_results,      \* ChatRequest.num_results
  threshold,        \* search_confidence_threshold
  tavily,           \* what the search provider does for the query
  loop,             \* the request running on the event loop, or "free"
  pc,               \* per request: its position in the handler
  calls,            \* per request: the collaborator stages invoked, in order
  kb_results,       \* per request: local kb_results
  gate,             \* per request: the outcome of the `if` of the gate
  used_search,      \* query: local used_search
  search_context,   \* per request: local search_context
  search_sources,   \* query: local search_sources
  prompt,           \* per request: the messages handed to generation
  produced,         \* per request: the chunks the generation call produced
  response,         \* query: the RAGResponse returned, <<>> while there is none
  delivered,        \* per request: the answer text the caller has received
  outcome,          \* per request: what the caller has seen of the request
  raised,           \* per request: the stages whose collaborator raised
  failed,           \* per request: the stage whose exception propagated
  result,           \* a function called on its own: its argument and value
  text,             \* chunk_text: the text
  chunk_size,       \* chunk_text: self.chunk_size
  chunk_overlap,    \* chunk_text: self.chunk_overlap
  cpc,              \* chunk_text: "idle", in the "loop", or "done"
  start,            \* chunk_text: local start
  chunk_num,        \* chunk_text: local chunk_num
  chunks,           \* chunk_text: local chunks
  pdf_dir,          \* settings.pdf_directory: chunks of each file, 0 = absent
  stored,           \* the ids held by the collection
  submitted,        \* the ids of the last collection.add
  clash,            \* the ids of that add the collection already held
  ingest,           \* how the last ingestion operation ended
  health_pipeline,  \* health.py: pipeline was constructed (not None)
  health,           \* the last detailed health check: stats lookup, response
  generation,       \* the collection that exists: 0, then one more per clear
  handle,           \* self.collection of each VectorStore instance
  retrieval,        \* the last vector_store.search made by the chat pipeline
  consumer          \* the caller of /stream: "connected" or "gone"

chunker == <<text, chunk_size, chunk_overlap, cpc, start, chunk_num, chunks>>
ingestion == <<pdf_dir, stored, submitted, clash, ingest, health_pipeline,
               health, generation, handle, retrieval>>
inputs == <<collection, use_search, num_results, threshold, tavily, result,
            chunker, ingestion, consumer>>
locals == <<kb_results, gate, used_search, search_context, search_sources>>
vars == <<collection, use_search, num_results, threshold, tavily, loop, pc,
          calls, kb_results, gate, used_search, search_context,
          search_sources, prompt, produced, response, delivered, outcome,
          raised, failed, result, chunker, ingestion, consumer>>

\* the state of the two requests
requests == <<loop, pc, calls, kb_results, gate, used_search, search_context,
              search_sources, prompt, produced, response, delivered, outcome,
              raised, failed, consumer>>

user_query == "q"

Idle ==
  /\ loop = "free"
  /\ pc = [m \in Modes |-> "idle"]
  /\ calls = [m \in Modes |-> <<>>]
  /\ kb_results = [m \in Modes |-> <<>>]
  /\ gate = [m \in Modes |-> "pending"]
  /\ used_search = FALSE
  /\ search_context = [m \in Modes |-> NoneStr]
  /\ search_sources = <<>>
  /\ prompt = [m \in Modes |-> <<>>]
  /\ produced = [m \in Modes |-> <<>>]
  /\ response = <<>>
  /\ delivered = [m \in Modes |-> <<>>]
  /\ outcome = [m \in Modes |-> "pending"]
  /\ raised = [m \in Modes |-> {}]
  /\ failed = [m \in Modes |-> "none"]
  /\ result = [fn |-> "none", arg |-> 0, value |-> 0]
  /\ consumer = "connected"

\* no chunk_text call is under way
ChunkerIdle ==
  /\ text = <<>>
  /\ chunk_size = DefaultChunkSize
  /\ chunk_overlap = DefaultChunkOverlap
  /\ cpc = "idle"
  /\ start = 0
  /\ chunk_num = 0
  /\ chunks = <<>>

\* the names of the PDF files
Filenames == {"a.pdf", "b.pdf"}

\* the statuses detailed_health_check starts from
NoHealth ==
  [code |-> 0, status |-> "unknown", llm_status |-> "unknown",
   vector_db_status |-> "unknown", search_status |-> "unknown",
   documents_indexed |-> 0]

\* the VectorStore instances that live as long as the application: the one
\* of routes/knowledge.py and the one inside the RAGPipeline of routes/chat.py
Stores == {"knowledge", "chat"}

\* no ingestion operation has run: nothing indexed, no health check made,
\* every instance holds the collection it got when it was constructed
IngestIdle ==
  /\ generation = 0
  /\ handle = [v \in Stores |-> 0]
  /\ retrieval = [status |-> "none", from |-> 0, existing |-> 0]
  /\ health = [called |-> FALSE,
               stats |-> [ok |-> TRUE, total_chunks |-> 0],
               response |-> NoHealth]
  /\ stored = {}
  /\ submitted = {}
  /\ clash = {}
  /\ ingest = "none"

\* one request body, posted to /query and to /stream
Init ==
  /\ collection \in Passages(Distances, MaxKb)
  /\ use_search \in BOOLEAN
  /\ num_results \in NumResults
  /\ threshold \in Thresholds
  /\ tavily \in TavilyResponses
  /\ Idle
  /\ ChunkerIdle
  /\ pdf_dir = [f \in Filenames |-> 0]
  /\ health_pipeline = TRUE
  /\ IngestIdle

\* ---------------------------------------------------------------- actions
\* chat_query / chat_query_stream: the handler is entered.  chat_query awaits
\* pipeline.query; chat_query_stream returns the StreamingResponse at once,
\* whose generator body then runs outside the handler's try block.
Receive(m) ==
  /\ pc[m] = "idle"
  /\ loop = "free"
  /\ loop' = m
  /\ pc' = [pc EXCEPT ![m] = "retrieve"]
  /\ outcome' = [outcome EXCEPT ![m] = IF m = "stream" THEN "streaming" ELSE @]
  /\ UNCHANGED <<inputs, locals, calls, prompt, produced, response, delivered,
                 raised, failed>>

\* an exception leaves the pipeline: chat_query answers 500, the streaming
\* body is cut
Raise(m, stage) ==
  /\ raised' = [raised EXCEPT ![m] = @ \cup {stage}]
  /\ pc' = [pc EXCEPT ![m] = "error"]
  /\ failed' = [failed EXCEPT ![m] = stage]
  /\ outcome' = [outcome EXCEPT ![m] =
                   IF m = "stream" THEN "stream_aborted" ELSE "http500"]
  /\ loop' = "free"

\* GateDecision without the caller's opt-out
GateIgnoresOptOut(use, results, thr) ==
  IF should_use_search(results, thr) THEN "fire" ELSE "hold"

\* the operand of `if use_search and should_use_search(...)`
GateDecision(use, results, thr) ==
  IF ~use THEN "optout"
  ELSE IF should_use_search(results, thr) THEN "fire"
  ELSE "hold"

\* ------------------------------------------------------ RAGPipeline.query
\* Step 1: kb_results = self.vector_store.search(user_query, k=num_results)
QueryRetrieve ==
  /\ pc["query"] = "retrieve"
  /\ loop = "query"
  /\ calls' = [calls EXCEPT !["query"] = Append(@, "retrieve")]
  /\ \/ /\ kb_results' = [kb_results EXCEPT !["query"] =
                            vector_store_search(collection, num_results)]
        /\ pc' = [pc EXCEPT !["query"] = "gate"]
        /\ UNCHANGED <<loop, outcome, raised, failed>>
     \/ /\ Raise("query", "retrieve")
        /\ UNCHANGED kb_results
  /\ UNCHANGED <<inputs, gate, used_search, search_context, search_sources,
                 prompt, produced, response, delivered>>

\* Step 2: used_search = False; search_context = None; search_sources = [];
\* if use_search and self.web_search.should_use_search(...)
QueryGate ==
  /\ pc["query"] = "gate"
  /\ loop = "query"
  /\ used_search' = FALSE
  /\ search_context' = [search_context EXCEPT !["query"] = NoneStr]
  /\ search_sources' = <<>>
  /\ LET g == GateDecision(use_search, kb_results["query"], threshold)
     IN  /\ gate' = [gate EXCEPT !["query"] = g]
         /\ pc' = [pc EXCEPT !["query"] =
                     IF g = "fire" THEN "search" ELSE "generate"]
  /\ UNCHANGED <<inputs, loop, calls, kb_results, prompt, produced, response,
                 delivered, outcome, raised, failed>>

\* QuerySearch with a retry: an empty result makes the search run again
QuerySearchRetry ==
  /\ pc["query"] = "search"
  /\ loop = "query"
  /\ calls' = [calls EXCEPT !["query"] = Append(@, "search")]
  /\ raised' = [raised EXCEPT !["query"] =
                  IF tavily.kind = "raise" THEN @ \cup {"search"} ELSE @]
  /\ LET search_results == web_search(tavily)
     IN  IF search_results # <<>>
         THEN /\ used_search' = TRUE
              /\ search_context' = [search_context EXCEPT !["query"] =
                    format_search_results_for_context(search_results)]
              /\ search_sources' = search_results
              /\ pc' = [pc EXCEPT !["query"] = "generate"]
         ELSE UNCHANGED <<used_search, search_context, search_sources, pc>>
  /\ UNCHANGED <<inputs, loop, kb_results, gate, prompt, produced, response,
                 delivered, outcome, failed>>

\* QuerySearch without the `if search_results:` test
QuerySearchUnchecked ==
  /\ pc["query"] = "search"
  /\ loop = "query"
  /\ calls' = [calls EXCEPT !["query"] = Append(@, "search")]
  /\ raised' = [raised EXCEPT !["query"] =
                  IF tavily.kind = "raise" THEN @ \cup {"search"} ELSE @]
  /\ LET search_results == web_search(tavily)
     IN  /\ used_search' = TRUE
         /\ search_context' = [search_context EXCEPT !["query"] =
               format_search_results_for_context(search_results)]
         /\ search_sources' = search_results
  /\ pc' = [pc EXCEPT !["query"] = "generate"]
  /\ UNCHANGED <<inputs, loop, kb_results, gate, prompt, produced, response,
                 delivered, outcome, failed>>

\* QuerySearch whose provider failure is not absorbed
QuerySearchPropagates ==
  /\ pc["query"] = "search"
  /\ loop = "query"
  /\ calls' = [calls EXCEPT !["query"] = Append(@, "search")]
  /\ IF tavily.kind = "raise"
     THEN /\ Raise("query", "search")
          /\ UNCHANGED <<used_search, search_context, search_sources>>
     ELSE /\ LET search_results == web_search(tavily)
             IN  IF search_results # <<>>
                 THEN /\ used_search' = TRUE
                      /\ search_context' = [search_context EXCEPT !["query"] =
                            format_search_results_for_context(search_results)]
                      /\ search_sources' = search_results
                 ELSE UNCHANGED <<used_search, search_context, search_sources>>
          /\ pc' = [pc EXCEPT !["query"] = "generate"]
          /\ UNCHANGED <<loop, outcome, raised, failed>>
  /\ UNCHANGED <<inputs, kb_results, gate, prompt, produced, response,
                 delivered>>

\* search_results = self.web_search.search(user_query); if search_results: ...
QuerySearch ==
  /\ pc["query"] = "search"
  /\ loop = "query"
  /\ calls' = [calls EXCEPT !["query"] = Append(@, "search")]
  /\ raised' = [raised EXCEPT !["query"] =
                  IF tavily.kind = "raise" THEN @ \cup {"search"} ELSE @]
  /\ LET search_results == web_search(tavily)
     IN  IF search_results # <<>>
         THEN /\ used_search' = TRUE
              /\ search_context' = [search_context EXCEPT !["query"] =
                    format_search_results_for_context(search_results)]
              /\ search_sources' = search_results
         ELSE UNCHANGED <<used_search, search_context, search_sources>>
  /\ pc' = [pc EXCEPT !["query"] = "generate"]
  /\ UNCHANGED <<inputs, loop, kb_results, gate, prompt, produced, response,
                 delivered, outcome, failed>>

\* the completion text of n chunks
Completion(n) == [i \in 1..n |-> i]

\* Generate that hands over the text received before the failure
GenerateLeaksPartial ==
  /\ pc["query"] = "generate"
  /\ loop = "query"
  /\ calls' = [calls EXCEPT !["query"] = Append(@, "generate")]
  /\ prompt' = [prompt EXCEPT !["query"] =
        create_prompt(user_query, kb_results["query"], search_context["query"])]
  /\ \/ /\ produced' = [produced EXCEPT !["query"] = Completion(MaxChunks)]
        /\ pc' = [pc EXCEPT !["query"] = "assemble"]
        /\ UNCHANGED <<loop, outcome, raised, failed, delivered>>
     \/ /\ Raise("query", "generate")
        /\ produced' = [produced EXCEPT !["query"] = Completion(1)]
        /\ delivered' = [delivered EXCEPT !["query"] = Completion(1)]
  /\ UNCHANGED <<inputs, locals, response>>

\* Step 3: answer = self.llm_client.generate_response(...)
Generate ==
  /\ pc["query"] = "generate"
  /\ loop = "query"
  /\ calls' = [calls EXCEPT !["query"] = Append(@, "generate")]
  /\ prompt' = [prompt EXCEPT !["query"] =
        create_prompt(user_query, kb_results["query"], search_context["query"])]
  /\ \/ /\ produced' = [produced EXCEPT !["query"] = Completion(MaxChunks)]
        /\ pc' = [pc EXCEPT !["query"] = "assemble"]
        /\ UNCHANGED <<loop, outcome, raised, failed>>
     \/ /\ Raise("query", "generate")
        /\ UNCHANGED produced
  /\ UNCHANGED <<inputs, locals, response, delivered>>

\* Step 4: confidence, sources, RAGResponse; chat_query returns it
Assemble ==
  /\ pc["query"] = "assemble"
  /\ loop = "query"
  /\ calls' = [calls EXCEPT !["query"] = Append(@, "assemble")]
  /\ response' =
        <<[answer |-> produced["query"],
           sources |-> format_sources(kb_results["query"], search_sources),
           confidence |-> calculate_confidence(kb_results["query"]),
           used_web_search |-> used_search]>>
  /\ delivered' = [delivered EXCEPT !["query"] = produced["query"]]
  /\ outcome' = [outcome EXCEPT !["query"] = "http200"]
  /\ pc' = [pc EXCEPT !["query"] = "done"]
  /\ loop' = "free"
  /\ UNCHANGED <<inputs, locals, prompt, produced, raised, failed>>

\* ----------------------------------------------- RAGPipeline.query_stream
\* kb_results = self.vector_store.search(user_query, k=num_results)
StreamRetrieve ==
  /\ pc["stream"] = "retrieve"
  /\ loop = "stream"
  /\ calls' = [calls EXCEPT !["stream"] = Append(@, "retrieve")]
  /\ \/ /\ kb_results' = [kb_results EXCEPT !["stream"] =
                            vector_store_search(collection, num_results)]
        /\ pc' = [pc EXCEPT !["stream"] = "gate"]
        /\ UNCHANGED <<loop, outcome, raised, failed>>
     \/ /\ Raise("stream", "retrieve")
        /\ UNCHANGED kb_results
  /\ UNCHANGED <<inputs, gate, used_search, search_context, search_sources,
                 prompt, produced, response, delivered>>

\* StreamGate that drops the caller's threshold for the default 0.7
StreamGateDefaultThreshold ==
  /\ pc["stream"] = "gate"
  /\ loop = "stream"
  /\ search_context' = [search_context EXCEPT !["stream"] = NoneStr]
  /\ LET g == GateDecision(use_search, kb_results["stream"], 1400)
     IN  /\ gate' = [gate EXCEPT !["stream"] = g]
         /\ pc' = [pc EXCEPT !["stream"] =
                     IF g = "fire" THEN "search" ELSE "generate"]
  /\ UNCHANGED <<inputs, loop, calls, kb_results, used_search, search_sources,
                 prompt, produced, response, delivered, outcome, raised,
                 failed>>

\* search_context = None; if use_search and should_use_search(...)
StreamGate ==
  /\ pc["stream"] = "gate"
  /\ loop = "stream"
  /\ search_context' = [search_context EXCEPT !["stream"] = NoneStr]
  /\ LET g == GateDecision(use_search, kb_results["stream"], threshold)
     IN  /\ gate' = [gate EXCEPT !["stream"] = g]
         /\ pc' = [pc EXCEPT !["stream"] =
                     IF g = "fire" THEN "search" ELSE "generate"]
  /\ UNCHANGED <<inputs, loop, calls, kb_results, used_search, search_sources,
                 prompt, produced, response, delivered, outcome, raised, failed>>

\* search_results = self.web_search.search(user_query); if search_results: ...
StreamSearch ==
  /\ pc["stream"] = "search"
  /\ loop = "stream"
  /\ calls' = [calls EXCEPT !["stream"] = Append(@, "search")]
  /\ raised' = [raised EXCEPT !["stream"] =
                  IF tavily.kind = "raise" THEN @ \cup {"search"} ELSE @]
  /\ LET search_results == web_search(tavily)
     IN  IF search_results # <<>>
         THEN search_context' = [search_context EXCEPT !["stream"] =
                    format_search_results_for_context(search_results)]
         ELSE UNCHANGED search_context
  /\ pc' = [pc EXCEPT !["stream"] = "generate"]
  /\ UNCHANGED <<inputs, loop, kb_results, gate, used_search, search_sources,
                 prompt, produced, response, delivered, outcome, failed>>

\* generate_response_stream builds the prompt and opens the stream
\* (self.client.chat.completions.create(..., stream=True))
OpenStream ==
  /\ pc["stream"] = "generate"
  /\ loop = "stream"
  /\ calls' = [calls EXCEPT !["stream"] = Append(@, "generate")]
  /\ prompt' = [prompt EXCEPT !["stream"] =
        create_prompt(user_query, kb_results["stream"], search_context["stream"])]
  /\ \/ /\ pc' = [pc EXCEPT !["stream"] = "streaming"]
        /\ UNCHANGED <<loop, outcome, raised, failed>>
     \/ Raise("stream", "generate")
  /\ UNCHANGED <<inputs, locals, produced, response, delivered>>

\* the generator body runs on: it holds the loop inside the synchronous for,
\* or it is suspended at a yield and the response iterates it again, which
\* happens only while the caller is connected
Resumable ==
  \/ loop = "stream"
  \/ loop = "free" /\ consumer = "connected"

\* YieldChunk keeping the fragment back in place of yielding it
YieldChunkBuffered ==
  /\ pc["stream"] = "streaming"
  /\ Resumable
  /\ Len(produced["stream"]) < MaxChunks
  /\ produced' = [produced EXCEPT !["stream"] = Append(@, Len(@) + 1)]
  /\ loop' = "stream"
  /\ UNCHANGED <<inputs, locals, pc, calls, prompt, response, delivered,
                 outcome, raised, failed>>

\* for chunk in stream: a chunk with content is yielded through query_stream
\* and generate() to the StreamingResponse, which sends it and suspends
YieldChunk ==
  /\ pc["stream"] = "streaming"
  /\ Resumable
  /\ Len(produced["stream"]) < MaxChunks
  /\ LET content == Len(produced["stream"]) + 1
     IN  /\ produced' = [produced EXCEPT !["stream"] = Append(@, content)]
         /\ delivered' = [delivered EXCEPT !["stream"] = Append(@, content)]
  /\ loop' = "free"
  /\ UNCHANGED <<inputs, locals, pc, calls, prompt, response, outcome, raised, failed>>

\* a chunk whose delta.content is None is skipped; the for loop goes on
SkipChunk ==
  /\ pc["stream"] = "streaming"
  /\ Resumable
  /\ Len(produced["stream"]) < MaxChunks
  /\ produced' = [produced EXCEPT !["stream"] = Append(@, NoContent)]
  /\ loop' = "stream"
  /\ UNCHANGED <<inputs, locals, pc, calls, prompt, response, delivered,
                 outcome, raised, failed>>

\* the stream is exhausted: the generators return, the body is closed
EndStream ==
  /\ pc["stream"] = "streaming"
  /\ Resumable
  /\ pc' = [pc EXCEPT !["stream"] = "done"]
  /\ outcome' = [outcome EXCEPT !["stream"] = "stream_end"]
  /\ loop' = "free"
  /\ UNCHANGED <<inputs, locals, calls, prompt, produced, response, delivered,
                 raised, failed>>

\* iterating the stream raises: logged and re-raised out of the generators
StreamFails ==
  /\ pc["stream"] = "streaming"
  /\ Resumable
  /\ Raise("stream", "generate")
  /\ UNCHANGED <<inputs, locals, calls, prompt, produced, response, delivered>>

\* the caller of /stream goes away in the middle of the body
Disconnect ==
  /\ pc["stream"] = "streaming"
  /\ consumer = "connected"
  /\ consumer' = "gone"
  /\ UNCHANGED <<collection, use_search, num_results, threshold, tavily,
                 result, chunker, ingestion>>
  /\ UNCHANGED <<loop, locals, pc, calls, prompt, produced, response,
                 delivered, outcome, raised, failed>>

\* the StreamingResponse stops iterating generate(): the generators, suspended
\* at their yield, are closed there
StreamCancelled ==
  /\ pc["stream"] = "streaming"
  /\ consumer = "gone"
  /\ loop = "free"
  /\ pc' = [pc EXCEPT !["stream"] = "cancelled"]
  /\ outcome' = [outcome EXCEPT !["stream"] = "stream_cancelled"]
  /\ UNCHANGED <<inputs, loop, locals, calls, prompt, produced, response,
                 delivered, raised, failed>>

Next ==
  \/ \E m \in Modes : Receive(m)
  \/ QueryRetrieve
  \/ QueryGate
  \/ QuerySearch
  \/ Generate
  \/ Assemble
  \/ StreamRetrieve
  \/ StreamGate
  \/ StreamSearch
  \/ OpenStream
  \/ YieldChunk
  \/ SkipChunk
  \/ EndStream
  \/ StreamFails
  \/ Disconnect
  \/ StreamCancelled

Spec == Init /\ [][Next]_vars

\* the steps of one request
RequestStep(m) ==
  \/ Receive(m)
  \/ /\ m = "query"
     /\ \/ QueryRetrieve
        \/ QueryGate
        \/ QuerySearch
        \/ Generate
        \/ Assemble
  \/ /\ m = "stream"
     /\ \/ StreamRetrieve
        \/ StreamGate
        \/ StreamSearch
        \/ OpenStream
        \/ YieldChunk
        \/ SkipChunk
        \/ EndStream
        \/ StreamFails

\* ------------------------------------------- the functions called on their own
\* the arguments: any ranked passages; the requests stay idle
InitFn ==
  /\ collection \in Passages(FnDistances, MaxPassages)
  /\ use_search = TRUE
  /\ num_results = MaxPassages
  /\ threshold = 1400
  /\ tavily = [kind |-> "ok", results |-> <<>>]
  /\ Idle
  /\ ChunkerIdle
  /\ pdf_dir = [f \in Filenames |-> 0]
  /\ health_pipeline = TRUE
  /\ IngestIdle

pipeline == <<collection, use_search, num_results, threshold, tavily, loop, pc,
              calls, kb_results, gate, used_search, search_context,
              search_sources, prompt, produced, response, delivered, outcome,
              raised, failed, chunker, ingestion, consumer>>

CallShouldUseSearch ==
  /\ result.fn = "none"
  /\ \E thr \in FnThresholds :
       result' = [fn |-> "should_use_search", arg |-> thr,
                  value |-> should_use_search(collection, thr)]
  /\ UNCHANGED pipeline

CallCalculateConfidence ==
  /\ result.fn = "none"
  /\ result' = [fn |-> "calculate_confidence", arg |-> 0,
                value |-> calculate_confidence(collection)]
  /\ UNCHANGED pipeline

CallFormatSources ==
  /\ result.fn = "none"
  /\ \E n \in 0..MaxWeb :
       result' = [fn |-> "format_sources", arg |-> n,
                  value |-> format_sources(collection, ProviderResults(n))]
  /\ UNCHANGED pipeline

\* the search_results_context values: None, "", or the formatted results
SearchContexts ==
  {NoneStr, Str(<<>>)}
    \cup {format_search_results_for_context(ProviderResults(n)) : n \in 1..MaxWeb}

CallCreatePrompt ==
  /\ result.fn = "none"
  /\ \E ctx \in SearchContexts :
       result' = [fn |-> "create_prompt", arg |-> ctx,
                  value |-> create_prompt(user_query, collection, ctx)]
  /\ UNCHANGED pipeline

NextFn ==
  \/ CallShouldUseSearch
  \/ CallCalculateConfidence
  \/ CallFormatSources
  \/ CallCreatePrompt

SpecFn == InitFn /\ [][NextFn]_vars

\* ------------------------------------------------- chunk_text called on its own
\* process_pdf supplies the filename of the loaded file
filename == "doc.pdf"

\* chunk_text is entered with a text and a configuration; chunks = [],
\* start = 0, chunk_num = 0
InitChunk ==
  /\ collection = <<>>
  /\ use_search = TRUE
  /\ num_results = MaxPassages
  /\ threshold = 1400
  /\ tavily = [kind |-> "ok", results |-> <<>>]
  /\ Idle
  /\ pdf_dir = [f \in Filenames |-> 0]
  /\ health_pipeline = TRUE
  /\ IngestIdle
  /\ text \in Texts \cup {LongText}
  /\ \E c \in Configs : chunk_size = c[1] /\ chunk_overlap = c[2]
  /\ cpc = "loop"
  /\ start = 0
  /\ chunk_num = 0
  /\ chunks = <<>>

\* one iteration of while start < text_length
ChunkStep ==
  /\ cpc = "loop"
  /\ start < Len(text)
  /\ Len(chunks) < MaxEmitted
  /\ chunks' = Append(chunks,
                      DocumentChunk(text, filename, chunk_num, start, chunk_size))
  /\ chunk_num' = chunk_num + 1
  /\ start' = next_start(chunk_end(text, start, chunk_size), chunk_overlap)
  /\ UNCHANGED <<text, chunk_size, chunk_overlap, cpc>>
  /\ UNCHANGED <<collection, use_search, num_results, threshold, tavily,
                 result, requests, ingestion>>

\* the loop condition fails: return chunks
ChunkReturn ==
  /\ cpc = "loop"
  /\ ~(start < Len(text))
  /\ cpc' = "done"
  /\ UNCHANGED <<text, chunk_size, chunk_overlap, start, chunk_num, chunks>>
  /\ UNCHANGED <<collection, use_search, num_results, threshold, tavily,
                 result, requests, ingestion>>

NextChunk ==
  \/ ChunkStep
  \/ ChunkReturn

SpecChunk == InitChunk /\ [][NextChunk]_vars

\* ------------------------------------------------------------------ ingestion
\* process_pdf: the ids of the chunks of file f, whose text gives n chunks
process_pdf(f, n) == {chunk_id(f, k) : k \in 0..(n - 1)}

\* process_directory: the chunks of every PDF file in the directory
process_directory(dir) == UNION {process_pdf(f, dir[f]) : f \in Filenames}

\* a deployment: some PDF files in the directory, an empty collection
InitIngest ==
  /\ collection = <<>>
  /\ use_search = TRUE
  /\ num_results = MaxPassages
  /\ threshold = 1400
  /\ tavily = [kind |-> "ok", results |-> <<>>]
  /\ Idle
  /\ ChunkerIdle
  /\ pdf_dir \in [Filenames -> 0..MaxFileChunks]
  /\ health_pipeline \in BOOLEAN
  /\ IngestIdle

\* add_documents: collection.add with the ids of the chunks.  What the store
\* does with an id it already holds is its own: it refuses the whole add, or
\* it keeps the entry it has.
add_documents(held, batch) ==
  /\ submitted' = batch
  /\ clash' = batch \cap held
  /\ \/ /\ stored' = held \cup batch
        /\ ingest' = "ok"
     \/ /\ batch \cap held # {}
        /\ stored' = held
        /\ ingest' = "error"

\* upload_pdf: the file is written, processed, and its chunks are added
upload_pdf(f, n) ==
  /\ pdf_dir' = [pdf_dir EXCEPT ![f] = n]
  /\ UNCHANGED <<generation, handle>>
  /\ add_documents(stored, process_pdf(f, n))
  /\ UNCHANGED <<collection, use_search, num_results, threshold, tavily,
                 result, requests, chunker, health_pipeline, health,
                 retrieval>>

\* delete_document: delete_by_filename, then the file is removed
delete_document(f) ==
  /\ UNCHANGED <<generation, handle>>
  /\ stored' = {id \in stored : id[1] # f}
  /\ pdf_dir' = [pdf_dir EXCEPT ![f] = 0]
  /\ ingest' = "ok"
  /\ UNCHANGED <<submitted, clash>>
  /\ UNCHANGED <<collection, use_search, num_results, threshold, tavily,
                 result, requests, chunker, health_pipeline, health,
                 retrieval>>

\* clear_collection: delete_collection, then self.collection of the calling
\* instance is the re-created collection
clear_collection(handles, created) ==
  [handles EXCEPT !["knowledge"] = created]

\* reindex_all: clear_collection, process_directory, add_documents if any
reindex_all ==
  /\ generation < MaxClears
  /\ generation' = generation + 1
  /\ handle' = clear_collection(handle, generation + 1)
  /\ IF process_directory(pdf_dir) # {}
     THEN add_documents({}, process_directory(pdf_dir))
     ELSE /\ stored' = {}
          /\ ingest' = "ok"
          /\ UNCHANGED <<submitted, clash>>
  /\ UNCHANGED pdf_dir
  /\ UNCHANGED <<collection, use_search, num_results, threshold, tavily,
                 result, requests, chunker, health_pipeline, health,
                 retrieval>>

\* init_knowledge_base.main: process_directory, then add_documents
init_knowledge_base ==
  /\ UNCHANGED <<generation, handle>>
  /\ IF process_directory(pdf_dir) # {}
     THEN add_documents(stored, process_directory(pdf_dir))
     ELSE /\ ingest' = "empty"
          /\ UNCHANGED <<stored, submitted, clash>>
  /\ UNCHANGED pdf_dir
  /\ UNCHANGED <<collection, use_search, num_results, threshold, tavily,
                 result, requests, chunker, health_pipeline, health,
                 retrieval>>

\* get_stats: the count of the collection, or the lookup raises
get_stats(held) ==
  {[ok |-> TRUE, total_chunks |-> Cardinality(held)],
   [ok |-> FALSE, total_chunks |-> 0]}

\* detailed_health_check with nothing caught around the stats lookup
health_response_unguarded(constructed, stats) ==
  LET fine == constructed /\ stats.ok
      component == IF fine THEN "ok" ELSE "unknown"
  IN  [code |-> IF constructed /\ ~stats.ok THEN 500 ELSE 200,
       status |-> IF fine THEN "healthy" ELSE "degraded",
       llm_status |-> component,
       vector_db_status |-> component,
       search_status |-> component,
       documents_indexed |-> IF fine THEN stats.total_chunks ELSE 0]

\* detailed_health_check: the response for a pipeline that was constructed or
\* not and a stats lookup that returned or raised.  The three statuses are
\* set inside one try block after get_stats, which is its only call that
\* can raise.
health_response(constructed, stats) ==
  LET reached == constructed /\ stats.ok
      vector_db_status == IF reached THEN "ok" ELSE "unknown"
      llm_status == IF reached THEN "ok" ELSE "unknown"
      search_status == IF reached THEN "ok" ELSE "unknown"
  IN  [code |-> 200,
       status |-> IF \A st \in {llm_status, vector_db_status, search_status} :
                       st = "ok"
                  THEN "healthy" ELSE "degraded",
       llm_status |-> llm_status,
       vector_db_status |-> vector_db_status,
       search_status |-> search_status,
       documents_indexed |-> IF reached THEN stats.total_chunks ELSE 0]

\* GET /health/detailed
detailed_health_check ==
  /\ \E stats \in get_stats(stored) :
       health' = [called |-> TRUE,
                  stats |-> stats,
                  response |-> health_response(health_pipeline, stats)]
  /\ UNCHANGED <<pdf_dir, stored, submitted, clash, ingest, health_pipeline,
                 generation, handle, retrieval>>
  /\ UNCHANGED <<collection, use_search, num_results, threshold, tavily,
                 result, requests, chunker>>

\* pipeline.vector_store.search of a chat request.  A handle of the
\* collection that exists is served from it.  What the store does with the
\* handle of a deleted collection is its own: it refuses it, or it finds the
\* collection that now has the name.
pipeline_search ==
  /\ \/ retrieval' = [status |-> "ok", from |-> generation,
                      existing |-> generation]
     \/ /\ handle["chat"] # generation
        /\ retrieval' = [status |-> "error", from |-> handle["chat"],
                         existing |-> generation]
  /\ UNCHANGED <<pdf_dir, stored, submitted, clash, ingest, health_pipeline,
                 health, generation, handle>>
  /\ UNCHANGED <<collection, use_search, num_results, threshold, tavily,
                 result, requests, chunker>>

NextIngest ==
  \/ \E f \in Filenames, n \in 1..MaxFileChunks : upload_pdf(f, n)
  \/ \E f \in Filenames : delete_document(f)
  \/ reindex_all
  \/ init_knowledge_base
  \/ detailed_health_check
  \/ pipeline_search

SpecIngest == InitIngest /\ [][NextIngest]_vars
\* ================================================================= claims
Range(s) == {s[i] : i \in DOMAIN s}
IsPrefix(s, t) == Len(s) <= Len(t) /\ SubSeq(t, 1, Len(s)) = s
Count(x, s) == Cardinality({i \in DOMAIN s : s[i] = x})

\* C1: a non-streaming request invokes retrieval, then web search only when
\* the gate let it in, then generation, then response assembly, in that
\* order; each stage is invoked at most once and none is entered again.
C1_StageOrder ==
  /\ \/ IsPrefix(calls["query"], <<"retrieve", "search", "generate", "assemble">>)
     \/ IsPrefix(calls["query"], <<"retrieve", "generate", "assemble">>)
  /\ "search" \in Range(calls["query"]) => gate["query"] = "fire"
  /\ ("generate" \in Range(calls["query"]) /\ gate["query"] = "fire")
        => "search" \in Range(calls["query"])
  /\ pc["query"] = "done"
        => /\ calls["query"][Len(calls["query"])] = "assemble"
           /\ Len(response) = 1

\* a request that went through all four stages, the search coming back empty
C1_Witness ==
  /\ pc["query"] = "done"
  /\ calls["query"] = <<"retrieve", "search", "generate", "assemble">>
  /\ web_search(tavily) = <<>>
HasWebPart(p) == \E i \in DOMAIN p : p[i].part = "web"
WebSources(src) == {i \in DOMAIN src : src[i].type = "web_search"}
SearchCameBackEmpty == tavily.kind # "ok" \/ tavily.results = <<>>

\* C3: with use_search false, on query and on query_stream, web search is
\* never invoked and generation receives no search context; on query,
\* used_web_search is false and no source is a web_search entry.
C3_OptOut ==
  ~use_search =>
    /\ \A m \in Modes : /\ "search" \notin Range(calls[m])
                        /\ search_context[m] = NoneStr
                        /\ ~HasWebPart(prompt[m])
    /\ ~used_search
    /\ response # <<>> => /\ ~response[1].used_web_search
                          /\ WebSources(response[1].sources) = {}

\* both requests completed with use_search false although the gate would
\* have fired and the provider had results
C3_Witness ==
  /\ ~use_search
  /\ pc["query"] = "done" /\ pc["stream"] = "done"
  /\ kb_results["query"] # <<>>
  /\ Unit - kb_results["query"][1].distance < threshold
  /\ tavily.kind = "ok" /\ tavily.results # <<>>

\* C4: when the gate fires and the search returns nothing or fails inside,
\* the request goes on to generation as if search had not been used: no
\* search context, used_web_search false, no web_search source, no error
\* from the search.
C4_SearchDegrades ==
  \A m \in Modes :
    ("search" \in Range(calls[m]) /\ SearchCameBackEmpty) =>
      /\ gate[m] = "fire"
      /\ failed[m] # "search"
      /\ pc[m] \in {"generate", "assemble", "streaming", "done", "error",
                  "cancelled"}
      /\ pc[m] = "error" => failed[m] = "generate"
      /\ search_context[m] = NoneStr
      /\ prompt[m] # <<>> =>
           /\ ~HasWebPart(prompt[m])
           /\ prompt[m] = create_prompt(user_query, kb_results[m], NoneStr)
      /\ m = "query" =>
           /\ ~used_search
           /\ search_sources = <<>>
           /\ response # <<>> => /\ ~response[1].used_web_search
                                 /\ WebSources(response[1].sources) = {}

\* the provider raised inside the search and the request was still answered
C4_Witness ==
  /\ tavily.kind = "raise"
  /\ "search" \in raised["query"]
  /\ outcome["query"] = "http200"
  /\ outcome["stream"] = "stream_end"
  /\ "search" \in Range(calls["stream"])

\* C5: a failure of the retrieval call or of the generation call ends the
\* request in an error: no RAGResponse, no second attempt, and nothing is
\* invoked after a failed retrieval; no other stage's failure reaches the
\* caller.
C5_FatalStages ==
  \A m \in Modes :
    /\ failed[m] \in {"none", "retrieve", "generate"}
    /\ (pc[m] = "error") <=> (failed[m] # "none")
    /\ (raised[m] \cap {"retrieve", "generate"} # {}) =>
         /\ pc[m] = "error"
         /\ failed[m] \in raised[m]
    /\ failed[m] = "retrieve" => calls[m] = <<"retrieve">>
    /\ failed[m] = "generate" =>
         /\ Count("generate", calls[m]) = 1
         /\ calls[m][Len(calls[m])] = "generate"
    /\ (m = "query" /\ failed[m] # "none") =>
         /\ response = <<>>
         /\ outcome[m] = "http500"

\* a failed retrieval, and a failed generation after an absorbed search failure
C5_Witness ==
  /\ failed["query"] = "retrieve"
  /\ failed["stream"] = "generate"
  /\ "search" \in raised["stream"]

\* C6: on query and on query_stream alike, if generation fails the caller
\* has received no answer text at all.
C6_NoPartialAnswer ==
  \A m \in Modes : "generate" \in raised[m] => delivered[m] = <<>>

\* C6 (amended): on query a failed generation delivers no answer text and a
\* delivered answer is the whole completion; on query_stream a failed
\* generation has delivered exactly the fragments produced before it failed.
C6_NoPartialOnQuery ==
  /\ "generate" \in raised["query"] => delivered["query"] = <<>>
  /\ delivered["query"] # <<>> =>
       /\ outcome["query"] = "http200"
       /\ delivered["query"] = Completion(MaxChunks)
  /\ "generate" \in raised["stream"] =>
       delivered["stream"] =
         SelectSeq(produced["stream"], LAMBDA c : c # NoContent)

\* generation failed on both requests, the stream after a delivered fragment
C6_Witness ==
  /\ "generate" \in raised["query"]
  /\ "generate" \in raised["stream"]
  /\ delivered["stream"] # <<>>

\* C7: for the same request body, knowledge base and provider results,
\* query and query_stream take the same gate decision, invoke search the
\* same number of times and hand generation the same prompt messages.
C7_SamePath ==
  /\ (gate["query"] # "pending" /\ gate["stream"] # "pending")
       => gate["query"] = gate["stream"]
  /\ (prompt["query"] # <<>> /\ prompt["stream"] # <<>>) =>
       /\ prompt["query"] = prompt["stream"]
       /\ Count("search", calls["query"]) = Count("search", calls["stream"])
       /\ kb_results["query"] = kb_results["stream"]
       /\ search_context["query"] = search_context["stream"]

\* both requests reached generation with passages and search results
C7_Witness ==
  /\ prompt["query"] # <<>> /\ prompt["stream"] # <<>>
  /\ HasWebPart(prompt["stream"])
  /\ kb_results["stream"] # <<>>
  /\ threshold # 1400

\* C8: with an empty knowledge base and use_search true, whatever the
\* threshold, search is invoked and the confidence is 0.0; n >= 1 search
\* results give used_web_search true and exactly min(n, 3) web_search
\* sources and no knowledge_base source.
C8_EmptyKnowledgeBase ==
  (collection = <<>> /\ use_search) =>
    /\ \A m \in Modes :
         prompt[m] # <<>> => Count("search", calls[m]) = 1
    /\ response # <<>> =>
         LET r == response[1]
             n == IF tavily.kind = "ok" THEN Len(tavily.results) ELSE 0
         IN  /\ r.confidence = 0
             /\ n >= 1 =>
                  /\ r.used_web_search
                  /\ Len(r.sources) = IF n < 3 THEN n ELSE 3
                  /\ \A i \in DOMAIN r.sources :
                       /\ r.sources[i].type = "web_search"
                       /\ r.sources[i].ref = tavily.results[i].url

\* the empty knowledge base answered with the provider's 2 results
C8_Witness ==
  /\ collection = <<>> /\ use_search /\ threshold = 0
  /\ response # <<>>
  /\ Len(tavily.results) = 2
  /\ Len(response[1].sources) = 2
  /\ response[1].used_web_search

\* C2: should_use_search(results, threshold) is true exactly when results is
\* empty or the clamped score clamp(1 - d/2, 0, 1) of the first result is
\* strictly below threshold, for every distance and every threshold.
C2_GateUsesClampedScore ==
  result.fn = "should_use_search" =>
    result.value =
      (\/ collection = <<>>
       \/ (LET raw == Unit - collection[1].distance
               score == IF raw < 0 THEN 0 ELSE IF raw > Unit THEN Unit ELSE raw
           IN  score < result.arg))

Abs(x) == IF x < 0 THEN -x ELSE x

\* C9: the confidence is clamp(1 - d/2, 0, 1) of the top passage's distance
\* d rounded to 2 decimals: it lies in [0, 1], is non-increasing in d, is 1.0
\* at d = 0 and 0.0 at d = 2 and d = 3, and is 0.0 without a passage.
C9_Confidence ==
  result.fn = "calculate_confidence" =>
    LET c == result.value
    IN  /\ 0 <= c /\ c <= Unit
        /\ c % Cent = 0
        /\ collection = <<>> => c = 0
        /\ collection # <<>> =>
             LET d == collection[1].distance
                 exact == IF d >= 2000 THEN 0 ELSE IF d <= 0 THEN 2000
                          ELSE 2000 - d
             IN  /\ 2 * Abs(c - exact) <= Cent
                 /\ d = 0 => c = 2000
                 /\ d \in {2000, 3000} => c = 0
                 /\ \A o \in Passages(FnDistances, 1) :
                      (o # <<>> /\ o[1].distance >= d)
                        => calculate_confidence(o) <= c

\* the confidence of a passage at distance 3.0 is clamped to 0.0
C9_Witness ==
  /\ result.fn = "calculate_confidence"
  /\ collection # <<>>
  /\ collection[1].distance = 3000
  /\ result.value = 0

\* C10: m passages and n search results give min(m,3) + min(n,3) <= 6
\* sources: first the knowledge_base entries of the first min(m,3) passages
\* in retrieval order, then the web_search entries of the first min(n,3)
\* results in input order; no web_search entry precedes a knowledge_base one.
C10_Sources ==
  result.fn = "format_sources" =>
    LET src == result.value
        km == IF Len(collection) < 3 THEN Len(collection) ELSE 3
        kn == IF result.arg < 3 THEN result.arg ELSE 3
    IN  /\ Len(src) = km + kn
        /\ Len(src) <= 6
        /\ \A i \in 1..km : /\ src[i].type = "knowledge_base"
                             /\ src[i].ref = collection[i].id
        /\ \A j \in 1..kn : /\ src[km + j].type = "web_search"
                             /\ src[km + j].ref = ProviderResults(result.arg)[j].url
        /\ \A i, j \in 1..Len(src) :
             (src[i].type = "web_search" /\ src[j].type = "knowledge_base")
               => j < i

\* 4 passages and 4 search results: 3 + 3 sources
C10_Witness ==
  /\ result.fn = "format_sources"
  /\ Len(collection) = 4
  /\ result.arg = 4
  /\ Len(result.value) = 6

\* C11: the user content handed to generation is, in this order, the
\* knowledge-base block (one labelled entry with index, filename, page and
\* text per retrieved passage, or the no-internal-documentation sentence
\* when there is none, never a blank block), then the web-search block if
\* and only if non-empty search results are attached, then the user query.
C11_PromptOrder ==
  result.fn = "create_prompt" =>
    LET p == result.value
        ctx == result.arg
        web == ~ctx.none /\ ctx.text # <<>>
        q == IF web THEN 3 ELSE 2
    IN  /\ Len(p) >= q
        /\ collection # <<>> =>
             /\ p[1].part = "kb"
             /\ Len(p[1].body) = Len(collection)
             /\ \A i \in 1..Len(collection) :
                  /\ p[1].body[i].n = i
                  /\ p[1].body[i].source = collection[i].id
                  /\ p[1].body[i].content = collection[i].id
                  /\ p[1].body[i].page = "N/A"
        /\ collection = <<>> => p[1].part = "kb_none"
        /\ web => p[2].part = "web" /\ p[2].body = ctx.text
        /\ web <=> (\E i \in DOMAIN p : p[i].part = "web")
        /\ p[q].part = "question" /\ p[q].body = <<user_query>>
        /\ \A i \in DOMAIN p :
             p[i].part \in {"kb", "kb_none", "web"} => i < q

\* no passage and two search results: the sentence, the web block, the query
C11_Witness ==
  /\ result.fn = "create_prompt"
  /\ collection = <<>>
  /\ Len(result.value) = 4
  /\ result.value[1].part = "kb_none"
  /\ result.value[2].part = "web"
  /\ Len(result.value[2].body) = 2

\* ------------------------------------------------------- claims on chunk_text
Starts == [i \in 1..Len(chunks) |-> chunks[i].start_char]

\* the chunk was cut before the raw edge of its window
Trimmed(c) == c.end_char - c.start_char < chunk_size

\* the positions of the window at s that hold a '.' or a newline
BreakPositions(s) ==
  {p \in s..(s + chunk_size - 1) :
     p >= 0 /\ p < Len(text) /\ text[p + 1] \in {".", "\n"}}

LastOf(S) == CHOOSE p \in S : \A q \in S : q <= p

\* C12: for a non-empty text and 0 < chunk_overlap < chunk_size every chunk has
\* end_char > start_char, the first chunk starts at 0, no chunk starts past
\* the end of the one before, and the ranges of the chunks chunk_text returns
\* cover every position of [0, len(text)).
C12_Coverage ==
  /\ \A i \in 1..Len(chunks) : chunks[i].end_char > chunks[i].start_char
  /\ chunks # <<>> => chunks[1].start_char = 0
  /\ \A i \in 1..(Len(chunks) - 1) :
       chunks[i + 1].start_char <= chunks[i].end_char
  /\ (cpc = "done" /\ text # <<>>) =>
       \A p \in 0..(Len(text) - 1) :
         \E i \in 1..Len(chunks) :
           chunks[i].start_char <= p /\ p < chunks[i].end_char

\* chunk_text returned three or more chunks, one of them boundary-trimmed
C12_Witness ==
  /\ cpc = "done"
  /\ Len(chunks) >= 3
  /\ \E i \in 1..Len(chunks) : Trimmed(chunks[i])

\* C13: each chunk starts at the end_char of the chunk before it minus
\* chunk_overlap, boundary-trimmed or not; 2500 characters without a break,
\* cut with chunk_size 1000 and chunk_overlap 200, start at 0, 800, 1600, 2400.
C13_Overlap ==
  /\ \A i \in 1..(Len(chunks) - 1) :
       chunks[i + 1].start_char = chunks[i].end_char - chunk_overlap
  /\ (/\ cpc = "done"
      /\ text = LongText
      /\ chunk_size = DefaultChunkSize
      /\ chunk_overlap = DefaultChunkOverlap) =>
       Starts = <<0, 800, 1600, 2400>>

\* the 2500-character text was chunked with the default configuration
C13_Witness ==
  /\ cpc = "done"
  /\ Len(text) = 2500
  /\ BreakPositions(0) = {}
  /\ chunk_size = 1000
  /\ chunk_overlap = 200
  /\ Len(chunks) = 4

\* C14 as stated: a window that is not the last one ends at its last '.' or
\* newline when that lies at or after 50% of the window, else at the raw edge.
C14_TrimAtOrAfterHalf ==
  \A i \in 1..Len(chunks) :
    LET s == chunks[i].start_char
        B == BreakPositions(s)
    IN  s + chunk_size < Len(text) =>
          IF B # {} /\ 2 * (LastOf(B) - s) >= chunk_size
          THEN chunks[i].end_char = LastOf(B) + 1
          ELSE chunks[i].end_char = s + chunk_size

\* C14: a window that is not the last one ends at its last '.' or newline when
\* that lies strictly after 50% of the window (b > chunk_size / 2), else at
\* the raw edge start + chunk_size.
C14_TrimAfterHalf ==
  \A i \in 1..Len(chunks) :
    LET s == chunks[i].start_char
        B == BreakPositions(s)
    IN  s + chunk_size < Len(text) =>
          IF B # {} /\ 2 * (LastOf(B) - s) > chunk_size
          THEN chunks[i].end_char = LastOf(B) + 1
          ELSE chunks[i].end_char = s + chunk_size

\* a window whose last break lies exactly at the half was cut at the raw edge
C14_Witness ==
  \E i \in 1..Len(chunks) :
    LET s == chunks[i].start_char
        B == BreakPositions(s)
    IN  /\ s + chunk_size < Len(text)
        /\ B # {}
        /\ 2 * (LastOf(B) - s) = chunk_size
        /\ chunks[i].end_char = s + chunk_size

\* C15: chunk_text returns no chunk for the empty text and exactly one chunk,
\* holding the whole text, for a text shorter than chunk_size.
C15_ShortText ==
  cpc = "done" =>
    /\ text = <<>> => chunks = <<>>
    /\ (0 < Len(text) /\ Len(text) < chunk_size) =>
         /\ Len(chunks) = 1
         /\ chunks[1].start_char = 0
         /\ chunks[1].content = strip(text)

\* C16: the start offsets of the chunks are strictly increasing: each loop
\* iteration moves the window start forward, so the loop ends.
C16_StartsIncrease ==
  \A i \in 1..(Len(chunks) - 1) :
    chunks[i + 1].start_char > chunks[i].start_char

\* C18: start_char and end_char are offsets into the text,
\* 0 <= start_char < end_char <= len(text), and content is the text between
\* them with surrounding whitespace trimmed.
C18_Offsets ==
  \A i \in 1..Len(chunks) :
    /\ 0 <= chunks[i].start_char
    /\ chunks[i].start_char < chunks[i].end_char
    /\ chunks[i].end_char <= Len(text)
    /\ chunks[i].content =
         strip(SubSeq(text, chunks[i].start_char + 1, chunks[i].end_char))

\* ------------------------------------------------------- claims on ingestion
\* the chunk numbers of file f among a set of ids
NumbersOf(f, ids) == {id[2] : id \in {x \in ids : x[1] = f}}

\* C17: the chunks of one chunk_text call are numbered 0, 1, 2, ... and carry
\* the id {filename}_{chunk_number}; over any sequence of uploads, reindexes
\* and runs of the init script no chunk is submitted under an id that a stored
\* chunk already has.
C17_UniqueIds ==
  /\ \A i \in 1..Len(chunks) :
       /\ chunks[i].chunk_number = i - 1
       /\ chunks[i].chunk_id = <<filename, i - 1>>
  /\ \A f \in Filenames :
       NumbersOf(f, submitted) = 0..(Cardinality(NumbersOf(f, submitted)) - 1)
  /\ clash = {}

\* ------------------------------------------- claims on requests in flight
\* the request is at one of its collaborator calls
AtCollaboratorCall(m) == pc[m] \in {"retrieve", "search", "generate"}

Finished(m) == pc[m] \in {"done", "error", "cancelled"}

\* C19: while one request is at its retrieval, search or generation call,
\* every other unfinished request can take a step: the call does not hold
\* the loop that serves the requests.
C19_NoStall ==
  \A m \in Modes : \A o \in Modes \ {m} :
    (AtCollaboratorCall(m) /\ ~Finished(o)) => ENABLED RequestStep(o)

IsText(c) == c # NoContent

\* C20: at every moment the fragments handed to the caller of query_stream are
\* exactly the non-null fragments the generation stream has produced so far,
\* in production order (none is held back while a later one is pulled), and
\* when the generation stream ends the body ends with them.
C20_StreamForwarding ==
  /\ delivered["stream"] = SelectSeq(produced["stream"], IsText)
  /\ outcome["stream"] = "stream_end" => pc["stream"] = "done"
  /\ (pc["stream"] = "done") => outcome["stream"] = "stream_end"

\* the stream ended after a null fragment and a text fragment
C20_Witness ==
  /\ outcome["stream"] = "stream_end"
  /\ NoContent \in Range(produced["stream"])
  /\ delivered["stream"] # <<>>
  /\ Len(delivered["stream"]) < Len(produced["stream"])

\* C21: once the caller of the streaming query has gone away, no further
\* fragment is pulled from the generation stream and the stream is not run to
\* its end.
C21_CancelOnDisconnect ==
  [][consumer = "gone" =>
       /\ produced'["stream"] = produced["stream"]
       /\ outcome'["stream"] # "stream_end"]_vars

\* ------------------------------------------------ claims on the health check
Components(r) == {r.llm_status, r.vector_db_status, r.search_status}

\* C22: the detailed health check always answers successfully, with
\* llm_status, vector_db_status, search_status and documents_indexed present;
\* status is "healthy" exactly when the three component statuses are "ok" and
\* "degraded" otherwise; a pipeline that was not constructed and a stats
\* lookup that raises give "degraded", not a failed request.
C22_DetailedHealth ==
  health.called =>
    LET r == health.response
    IN  /\ r.code = 200
        /\ {"llm_status", "vector_db_status", "search_status",
            "documents_indexed"} \subseteq DOMAIN r
        /\ r.status \in {"healthy", "degraded"}
        /\ (r.status = "healthy") <=> (Components(r) = {"ok"})
        /\ ~health_pipeline => r.status = "degraded"
        /\ ~health.stats.ok => r.status = "degraded"
        /\ (health_pipeline /\ health.stats.ok) =>
             /\ r.status = "healthy"
             /\ r.documents_indexed = health.stats.total_chunks

\* a health check met a stats lookup that raised, with chunks indexed
C22_Witness ==
  /\ health.called
  /\ health_pipeline
  /\ ~health.stats.ok
  /\ stored # {}
  /\ health.response.status = "degraded"
  /\ health.response.documents_indexed = 0

\* ------------------------------------------------- claims on the response
\* C23: when use_search is true and a passage was retrieved, web search was
\* invoked exactly when the confidence reported in the response is strictly
\* below the threshold of the request.
C23_GateAgreesWithConfidence ==
  (pc["query"] = "done" /\ use_search /\ kb_results["query"] # <<>>) =>
    (("search" \in Range(calls["query"]))
       <=> (response[1].confidence < threshold))

IsKbSource(src) == src.type = "knowledge_base"
IsWebSource(src) == src.type = "web_search"

\* C24: when a passage was retrieved, the confidence of the response equals
\* the relevance_score of its first knowledge_base source, and the
\* relevance_score of every knowledge_base source lies in [0, 1].
C24_ScoresAgree ==
  (pc["query"] = "done" /\ kb_results["query"] # <<>>) =>
    LET kb == SelectSeq(response[1].sources, IsKbSource)
    IN  /\ kb # <<>>
        /\ response[1].confidence = kb[1].relevance_score
        /\ \A i \in 1..Len(kb) :
             0 <= kb[i].relevance_score /\ kb[i].relevance_score <= Unit

\* C25: the sources of a response hold a web_search entry exactly when
\* used_web_search is true, and used_web_search is true exactly when the
\* search was invoked in the request and came back with a result.
C25_WebSearchFlag ==
  pc["query"] = "done" =>
    LET r == response[1]
    IN  /\ (SelectSeq(r.sources, IsWebSource) # <<>>) <=> r.used_web_search
        /\ r.used_web_search <=>
             /\ "search" \in Range(calls["query"])
             /\ tavily.kind = "ok"
             /\ tavily.results # <<>>

\* a response that used the web search and lists a web_search source
C25_Witness ==
  /\ pc["query"] = "done"
  /\ response[1].used_web_search
  /\ "search" \in Range(calls["query"])
  /\ SelectSeq(response[1].sources, IsWebSource) # <<>>
  /\ SelectSeq(response[1].sources, IsKbSource) # <<>>

\* ------------------------------------------------ claims on the collection
\* C26: a query of the chat pipeline made after a clear or reindex of the
\* knowledge routes has completed does not fail on the deleted collection and
\* is served from the re-created one.
C26_QueryAfterClear ==
  (retrieval.status # "none" /\ retrieval.existing > 0) =>
    /\ retrieval.status = "ok"
    /\ retrieval.from = retrieval.existing

====
